---- MODULE Spec2Model ----
(***************************************************************************)
(* Model of the automotive data analysis service (src/main.py): the        *)
(* DataAnalyzer store loaded from data/csv, the keyword based intent       *)
(* resolver and the three request handlers.                                *)
(*                                                                         *)
(* Python strings are sequences of one-character strings, so that lower(), *)
(* split(), replace(), zfill() and the `in` substring test are computed    *)
(* character by character.  A dict is a sequence of <<key, value>> pairs   *)
(* with distinct keys, in insertion order.                                 *)
(***************************************************************************)
EXTENDS Integers, Sequences, FiniteSets, TLC

VARIABLES
    description,          \* analysis_description handed to the resolver
    signal_descriptions,  \* ordered dict name -> human description
    signals,              \* value returned by extract_signals_from_description
    analysis_type,        \* value returned by identify_analysis_type
    pc,                   \* position of the pure-function driver
    dir_exists,           \* os.path.exists("data/csv")
    csv_files,            \* glob result: sequence of <<filename, content>>
    idx,                  \* number of csv_files already processed
    phase,                \* "loading" | "serving"
    vehicle_data,         \* analyzer.vehicle_data
    last                  \* outcome of the last request handled

vars == <<description, signal_descriptions, signals, analysis_type, pc,
          dir_exists, csv_files, idx, phase, vehicle_data, last>>

pureVars == <<description, signal_descriptions, signals, analysis_type, pc>>
serverVars == <<dir_exists, csv_files, idx, phase, vehicle_data, last>>

(***************************************************************************)
(* Bounds                                                                  *)
(***************************************************************************)
MaxDescLen == 2       \* length of generated analysis descriptions
MaxDescriptors == 2   \* entries of a generated signal_descriptions dict
MaxFragments == 3     \* fragments concatenated into a classifier input
MaxFiles == 2         \* files in data/csv

(***************************************************************************)
(* String primitives                                                       *)
(***************************************************************************)
UpperChars == <<"A","B","C","D","E","F","G","H","I","J","K","L","M",
                "N","O","P","Q","R","S","T","U","V","W","X","Y","Z">>
LowerChars == <<"a","b","c","d","e","f","g","h","i","j","k","l","m",
                "n","o","p","q","r","s","t","u","v","w","x","y","z">>

\* str.lower() on one ASCII character
UpperSet == {UpperChars[i] : i \in 1..26}
LowerOf == [u \in UpperSet |-> LowerChars[CHOOSE i \in 1..26 : UpperChars[i] = u]]
LowerChar(c) == IF c \in UpperSet THEN LowerOf[c] ELSE c

\* str.lower()
Lower(s) == [i \in 1..Len(s) |-> LowerChar(s[i])]

\* the Python test `sub in s` on strings
Contains(sub, s) ==
    \E i \in 0..(Len(s) - Len(sub)) : SubSeq(s, i + 1, i + Len(sub)) = sub

\* str.startswith
StartsWith(s, p) == Len(p) <= Len(s) /\ SubSeq(s, 1, Len(p)) = p

IsSpace(c) == c \in {" ", "\t", "\n", "\r"}

\* str.split() with no separator: maximal runs of non-whitespace
RECURSIVE SplitWsFrom(_, _, _, _)
SplitWsFrom(s, i, cur, acc) ==
    IF i > Len(s)
    THEN IF cur = <<>> THEN acc ELSE Append(acc, cur)
    ELSE IF IsSpace(s[i])
         THEN SplitWsFrom(s, i + 1, <<>>,
                          IF cur = <<>> THEN acc ELSE Append(acc, cur))
         ELSE SplitWsFrom(s, i + 1, Append(cur, s[i]), acc)

SplitWs(s) == SplitWsFrom(s, 1, <<>>, <<>>)

\* str.split(sep) for a one-character separator: empty pieces are kept
RECURSIVE SplitCharFrom(_, _, _, _, _)
SplitCharFrom(s, sep, i, cur, acc) ==
    IF i > Len(s)
    THEN Append(acc, cur)
    ELSE IF s[i] = sep
         THEN SplitCharFrom(s, sep, i + 1, <<>>, Append(acc, cur))
         ELSE SplitCharFrom(s, sep, i + 1, Append(cur, s[i]), acc)

SplitChar(s, sep) == SplitCharFrom(s, sep, 1, <<>>, <<>>)

\* str.replace(old, new) for a non-empty old: leftmost, non-overlapping
RECURSIVE ReplaceFrom(_, _, _, _, _)
ReplaceFrom(s, old, new, i, acc) ==
    IF i > Len(s)
    THEN acc
    ELSE IF i + Len(old) - 1 <= Len(s) /\ SubSeq(s, i, i + Len(old) - 1) = old
         THEN ReplaceFrom(s, old, new, i + Len(old), acc \o new)
         ELSE ReplaceFrom(s, old, new, i + 1, Append(acc, s[i]))

Replace(s, old, new) == ReplaceFrom(s, old, new, 1, <<>>)

\* str.zfill(width)
RECURSIVE Zeros(_)
Zeros(n) == IF n <= 0 THEN <<>> ELSE <<"0">> \o Zeros(n - 1)

ZFill(s, width) ==
    IF Len(s) >= width
    THEN s
    ELSE IF Len(s) > 0 /\ s[1] \in {"+", "-"}
         THEN <<s[1]>> \o Zeros(width - Len(s)) \o Tail(s)
         ELSE Zeros(width - Len(s)) \o s

(***************************************************************************)
(* Ordered dicts                                                           *)
(***************************************************************************)
Keys(d) == [i \in 1..Len(d) |-> d[i][1]]
KeySet(d) == {d[i][1] : i \in 1..Len(d)}
HasKey(d, k) == \E i \in 1..Len(d) : d[i][1] = k
Get(d, k) == d[CHOOSE i \in 1..Len(d) : d[i][1] = k][2]

\* d[k] = v : an existing key keeps its position, a new key goes last
Put(d, k, v) ==
    IF HasKey(d, k)
    THEN [i \in 1..Len(d) |-> IF d[i][1] = k THEN <<k, v>> ELSE d[i]]
    ELSE Append(d, <<k, v>>)

\* all sequences over S of length 0..n
SeqsUpTo(S, n) == UNION {[1..k -> S] : k \in 0..n}

(***************************************************************************)
(* Intent resolver                                                         *)
(***************************************************************************)
s_histogram == <<"h","i","s","t","o","g","r","a","m">>
s_distribution == <<"d","i","s","t","r","i","b","u","t","i","o","n">>
s_freq == <<"f","r","e","q">>
s_time == <<"t","i","m","e">>
s_series == <<"s","e","r","i","e","s">>
s_over_time == <<"o","v","e","r"," ","t","i","m","e">>
s_timeseries == <<"t","i","m","e","s","e","r","i","e","s">>

\* the classifier testing the temporal words first
identify_analysis_type_temporal_first(d) ==
    LET desc_lower == Lower(d) IN
    IF \E word \in {s_time, s_series, s_over_time} : Contains(word, desc_lower)
    THEN s_timeseries
    ELSE s_histogram

identify_analysis_type(d) ==
    LET desc_lower == Lower(d) IN
    IF \E word \in {s_histogram, s_distribution, s_freq} :
           Contains(word, desc_lower)
    THEN s_histogram
    ELSE IF \E word \in {s_time, s_series, s_over_time} :
                Contains(word, desc_lower)
         THEN s_timeseries
         ELSE s_histogram

\* the condition of the `if` inside the loop of
\* extract_signals_from_description
signal_mentioned(desc_lower, signal_name, signal_desc) ==
    \/ Contains(Lower(signal_name), desc_lower)
    \/ LET words == SplitWs(Lower(signal_desc)) IN
       \E w \in 1..Len(words) : Contains(words[w], desc_lower)

RECURSIVE extract_loop(_, _, _, _)
extract_loop(desc_lower, sd, i, acc) ==
    IF i > Len(sd)
    THEN acc
    ELSE extract_loop(desc_lower, sd, i + 1,
                      IF signal_mentioned(desc_lower, sd[i][1], sd[i][2])
                      THEN Append(acc, sd[i][1])
                      ELSE acc)

\* list(signal_descriptions.keys())[0] raises IndexError on an empty dict
IndexError == "IndexError"

\* the resolver comparing the name as written: `signal_name in desc_lower`
extract_signals_name_as_written(d, sd) ==
    LET desc_lower == Lower(d)
        hit(e) == \/ Contains(e[1], desc_lower)
                  \/ LET words == SplitWs(Lower(e[2])) IN
                     \E w \in 1..Len(words) : Contains(words[w], desc_lower)
        found == Keys(SelectSeq(sd, hit))
    IN IF found # <<>> THEN found
       ELSE IF sd = <<>> THEN IndexError ELSE <<sd[1][1]>>

\* the resolver splitting the human description as written:
\* `signal_desc.split()`
extract_signals_no_token_lower(d, sd) ==
    LET desc_lower == Lower(d)
        hit(e) == \/ Contains(Lower(e[1]), desc_lower)
                  \/ LET words == SplitWs(e[2]) IN
                     \E w \in 1..Len(words) : Contains(words[w], desc_lower)
        found == Keys(SelectSeq(sd, hit))
    IN IF found # <<>> THEN found
       ELSE IF sd = <<>> THEN IndexError ELSE <<sd[1][1]>>

\* the resolver falling back to the last key
extract_signals_last_fallback(d, sd) ==
    LET found == extract_loop(Lower(d), sd, 1, <<>>)
    IN IF found # <<>> THEN found
       ELSE IF sd = <<>> THEN IndexError ELSE <<sd[Len(sd)][1]>>

extract_signals_from_description(d, sd) ==
    LET found == extract_loop(Lower(d), sd, 1, <<>>)
    IN IF found # <<>> THEN found
       ELSE IF sd = <<>> THEN IndexError ELSE <<sd[1][1]>>

(***************************************************************************)
(* Inputs of the resolver specification                                    *)
(***************************************************************************)
\* Generated descriptions are over an alphabet whose upper-case letter
\* matches only through lower().  The generated names and human
\* descriptions share no letter, so that a name is selected through its name
\* or through a token; they include the empty string, an upper-case token,
\* two tokens and a string of whitespace only.
DescAlphabet == {"A", "b", " "}
GenNames == { <<>>, <<"b">>, <<"B">> }
GenHuman == { <<>>, <<"a">>, <<"A">>, <<"A", " ", "c">>, <<" ">> }

s_foo_bar == <<"f","o","o"," ","b","a","r">>
s_A == <<"A">>
s_B == <<"B">>
s_desc1 == <<"d","e","s","c","1">>
s_desc2 == <<"d","e","s","c","2">>
s_Eng_uBatt == <<"E","n","g","_","u","B","a","t","t">>
s_Eng_nEng10ms == <<"E","n","g","_","n","E","n","g","1","0","m","s">>
s_Battery_voltage_in_mV ==
    <<"B","a","t","t","e","r","y"," ","v","o","l","t","a","g","e"," ",
      "i","n"," ","m","V">>
s_Engine_speed == <<"E","n","g","i","n","e"," ","s","p","e","e","d">>
s_histogram_of_battery_voltage ==
    <<"h","i","s","t","o","g","r","a","m"," ","o","f"," ",
      "b","a","t","t","e","r","y"," ","v","o","l","t","a","g","e">>

ExampleAB == << <<s_A, s_desc1>>, <<s_B, s_desc2>> >>
ExampleBatt == << <<s_Eng_uBatt, s_Battery_voltage_in_mV>> >>

\* the worked examples of the documentation
ExampleCalls ==
    { <<s_foo_bar, ExampleAB>>,
      <<s_histogram_of_battery_voltage, ExampleBatt>>,
      <<s_foo_bar, ExampleBatt>> }

GenDescriptions == SeqsUpTo(DescAlphabet, MaxDescLen)

\* non-empty ordered dicts: distinct keys, every insertion order
GenDicts ==
    {d \in UNION {[1..k -> GenNames \X GenHuman] : k \in 1..MaxDescriptors} :
        \A i, j \in 1..Len(d) : i # j => d[i][1] # d[j][1]}

GenCalls == GenDescriptions \X GenDicts

NotCalled == "not called"

ServerIdle ==
    /\ dir_exists = FALSE
    /\ csv_files = <<>>
    /\ idx = 0
    /\ phase = "off"
    /\ vehicle_data = <<>>
    /\ last = [endpoint |-> "none"]

InitResolve ==
    /\ \E c \in GenCalls \cup ExampleCalls :
          /\ description = c[1]
          /\ signal_descriptions = c[2]
    /\ signals = NotCalled
    /\ analysis_type = NotCalled
    /\ pc = "call"
    /\ ServerIdle

CallExtract ==
    /\ pc = "call"
    /\ signals' = extract_signals_from_description(description,
                                                   signal_descriptions)
    /\ pc' = "extracted"
    /\ UNCHANGED <<description, signal_descriptions, analysis_type>>
    /\ UNCHANGED serverVars

NextResolve == CallExtract

SpecResolve == InitResolve /\ [][NextResolve]_vars

(***************************************************************************)
(* Inputs of the classifier specification: descriptions assembled from     *)
(* fragments, so that keywords also arise across fragment boundaries and   *)
(* in upper case                                                           *)
(***************************************************************************)
Fragments ==
    { s_histogram, s_distribution, s_freq, s_time, s_series, s_over_time,
      <<" ">>, <<" ","o","f"," ">>, <<"X">>, <<"T","i">>, <<"m","e">>,
      <<"H","i","s","t","o">>, <<"g","r","a","m">>,
      <<"s","h","o","w"," ","e","n","g","i","n","e"," ",
        "s","p","e","e","d"," ">> }

RECURSIVE Concat(_)
Concat(ss) == IF ss = <<>> THEN <<>> ELSE Head(ss) \o Concat(Tail(ss))

ClassifierInputs == {Concat(fs) : fs \in SeqsUpTo(Fragments, MaxFragments)}

InitClassify ==
    /\ description \in ClassifierInputs
    /\ signal_descriptions = <<>>
    /\ signals = NotCalled
    /\ analysis_type = NotCalled
    /\ pc = "call"
    /\ ServerIdle

CallIdentify ==
    /\ pc = "call"
    /\ analysis_type' = identify_analysis_type(description)
    /\ pc' = "identified"
    /\ UNCHANGED <<description, signal_descriptions, signals>>
    /\ UNCHANGED serverVars

NextClassify == CallIdentify

SpecClassify == InitClassify /\ [][NextClassify]_vars

(***************************************************************************)
(* Properties of the intent resolver                                       *)
(***************************************************************************)
\* the whitespace-split tokens of s, stated as maximal whitespace-free runs
TokensOf(s) ==
    { SubSeq(s, i, j) : <<i, j>> \in
        { p \in (1..Len(s)) \X (1..Len(s)) :
            /\ p[1] <= p[2]
            /\ \A k \in p[1]..p[2] : ~IsSpace(s[k])
            /\ (p[1] = 1 \/ IsSpace(s[p[1] - 1]))
            /\ (p[2] = Len(s) \/ IsSpace(s[p[2] + 1])) } }

\* "the lowercased description contains the lowercased name, or contains
\* some whitespace-split token of the human description"
MentionedAsWritten(d, name, human) ==
    \/ Contains(Lower(name), Lower(d))
    \/ \E t \in TokensOf(human) : Contains(t, Lower(d))

\* the same with the tokens taken from the lowercased human description
MentionedLowered(d, name, human) ==
    \/ Contains(Lower(name), Lower(d))
    \/ \E t \in TokensOf(Lower(human)) : Contains(t, Lower(d))

\* res lists, in dict order and once each, the names selected by Match,
\* or the first name alone when Match selects none
ResolvesBy(res, d, sd, Match(_, _, _)) ==
    LET M == {i \in 1..Len(sd) : Match(d, sd[i][1], sd[i][2])}
        nth(k) == CHOOSE i \in M : Cardinality({j \in M : j < i}) = k - 1
    IN /\ res \in Seq(KeySet(sd))
       /\ Len(res) >= 1
       /\ \A i, j \in 1..Len(res) : i # j => res[i] # res[j]
       /\ IF M = {}
          THEN res = <<sd[1][1]>>
          ELSE /\ Len(res) = Cardinality(M)
               /\ \A k \in 1..Len(res) : res[k] = sd[nth(k)][1]

ExtractDone == pc = "extracted"
IdentifyDone == pc = "identified"

\* C1 (as claimed): resolve_signals("foo bar", {"A": "desc1", "B": "desc2"})
\* returns exactly ["A"], the fallback to the first descriptor.
C1_FooBarReturnsA ==
    (ExtractDone /\ description = s_foo_bar /\ signal_descriptions = ExampleAB)
        => signals = <<s_A>>

\* C1 (amended): resolve_signals("foo bar", {"A": "desc1", "B": "desc2"})
\* returns ["A", "B"]: both lowercased names occur in "foo bar", so no
\* fallback takes place.
C1_FooBarReturnsAB ==
    (ExtractDone /\ description = s_foo_bar /\ signal_descriptions = ExampleAB)
        => signals = <<s_A, s_B>>

C1_Witness ==
    /\ ExtractDone
    /\ description = s_foo_bar
    /\ signal_descriptions = ExampleAB
    /\ Len(signals) = 2

\* C2 (as claimed): the result lists, in dict order and without duplicates,
\* the names whose lowercased form occurs in the lowercased description or
\* one of whose human-description tokens (as written) occurs in it; if there
\* is none it is the first name alone.
C2_ResolveAsWritten ==
    ExtractDone =>
        ResolvesBy(signals, description, signal_descriptions,
                   MentionedAsWritten)

\* C2 (amended): as above, with the tokens taken from the lowercased human
\* description.  The result is never empty and holds only keys of the dict.
C2_ResolveLowered ==
    ExtractDone =>
        ResolvesBy(signals, description, signal_descriptions,
                   MentionedLowered)

\* a name selected through an upper-case token only, next to one left out
C2_Witness ==
    /\ ExtractDone
    /\ Len(signal_descriptions) = 2
    /\ Len(signals) = 1
    /\ \E i \in 1..2 :
          /\ signals[1] = signal_descriptions[i][1]
          /\ ~Contains(Lower(signal_descriptions[i][1]), Lower(description))
          /\ \E t \in TokensOf(signal_descriptions[i][2]) :
                t # Lower(t) /\ Contains(Lower(t), Lower(description))
    /\ \E i \in 1..2 :
          ~MentionedLowered(description, signal_descriptions[i][1],
                            signal_descriptions[i][2])

HasTemporalWord(d) ==
    \E w \in {s_time, s_series, s_over_time} : Contains(w, Lower(d))
HasHistogramWord(d) ==
    \E w \in {s_histogram, s_distribution, s_freq} : Contains(w, Lower(d))

\* C3 (as claimed): classify_kind returns "timeseries" whenever the
\* lowercased description contains "time", "series" or "over time", also
\* next to "histogram", "distribution" or "freq"; "histogram" otherwise.
C3_TemporalWins ==
    IdentifyDone =>
        analysis_type = IF HasTemporalWord(description)
                        THEN s_timeseries ELSE s_histogram

\* C3 (amended): classify_kind returns "timeseries" exactly when the
\* lowercased description contains a temporal token and none of
\* "histogram", "distribution", "freq"; it returns "histogram" otherwise.
C3_HistogramWins ==
    IdentifyDone =>
        /\ analysis_type \in {s_timeseries, s_histogram}
        /\ analysis_type = s_timeseries
             <=> (HasTemporalWord(description)
                    /\ ~HasHistogramWord(description))

\* both kinds of word present and "histogram" returned
C3_Witness ==
    /\ IdentifyDone
    /\ HasTemporalWord(description)
    /\ HasHistogramWord(description)
    /\ analysis_type = s_histogram

\* C8 (as claimed): with the empty description the result is the first
\* descriptor's name alone, whatever the names and human descriptions are.
C8_EmptyDescriptionFirst ==
    (ExtractDone /\ description = <<>>)
        => signals = <<signal_descriptions[1][1]>>

\* C8 (amended): with the empty description the result is one name: the
\* empty name if the dict has it as a key, the first descriptor's otherwise.
C8_EmptyDescriptionFirstOrEmptyName ==
    (ExtractDone /\ description = <<>>)
        => signals = IF HasKey(signal_descriptions, <<>>)
                     THEN << <<>> >>
                     ELSE <<signal_descriptions[1][1]>>

\* the fallback taken on an empty description with two descriptors
C8_Witness ==
    /\ ExtractDone
    /\ description = <<>>
    /\ Len(signal_descriptions) = 2
    /\ ~HasKey(signal_descriptions, <<>>)
    /\ signal_descriptions[2][2] # <<>>
    /\ signals = <<signal_descriptions[1][1]>>

(***************************************************************************)
(* Data store                                                              *)
(***************************************************************************)
s_csv == <<".","c","s","v">>
s_dot == "."
s_Vehicle == <<"V","e","h","i","c","l","e">>
s_timestamps == <<"t","i","m","e","s","t","a","m","p","s">>
s_Unnamed == <<"U","n","n","a","m","e","d">>
s_Unnamed_0 == <<"U","n","n","a","m","e","d",":"," ","0">>
s_FuSHp_pRailBnk1 == <<"F","u","S","H","p","_","p","R","a","i","l","B","n","k","1">>
s_Fuel_Pressure == <<"F","u","e","l"," ","P","r","e","s","s","u","r","e">>

\* a cell of a data frame is <<x>> for the number x and <<>> when missing
NaN == <<>>
Cell(x) == <<x>>

\* what pd.read_csv did with a file: it raised (empty file, ragged rows,
\* undecodable bytes, ...) or returned a data frame, an ordered dict from
\* column name to column
ParseError == <<"ParseError">>
DataFrame(df) == <<"DataFrame", df>>

\* Series.dropna(), as the list of the remaining numbers
dropna(col) ==
    LET kept == SelectSeq(col, LAMBDA x : x # NaN)
    IN [i \in 1..Len(kept) |-> kept[i][1]]

\* filename.replace('.csv', '').split('.')
filename_parts(filename) == SplitChar(Replace(filename, s_csv, <<>>), s_dot)

\* one iteration of the loop of load_real_csv_data
load_file(store, filename, content) ==
    LET parts == filename_parts(filename) IN
    IF Len(parts) >= 2
    THEN LET vehicle_id == parts[1]
             channel_group == parts[2]
             store1 == IF ~HasKey(store, vehicle_id)
                       THEN Put(store, vehicle_id, <<>>)
                       ELSE store
         IN IF content # ParseError
            THEN Put(store1, vehicle_id,
                     Put(Get(store1, vehicle_id), channel_group, content[2]))
            ELSE store1
    ELSE store

\* the inner loop body with a guard that keeps a vehicle's first match
find_signal_visit_keep_first(results, signal_name, vehicle_id, channel_group, df) ==
    IF HasKey(df, signal_name) /\ ~HasKey(results, vehicle_id)
    THEN LET data == dropna(Get(df, signal_name)) IN
         IF Len(data) > 0
         THEN Put(results, vehicle_id,
                  [data |-> data,
                   channel_group |-> channel_group,
                   timestamps |-> IF HasKey(df, s_timestamps)
                                  THEN Get(df, s_timestamps)
                                  ELSE [i \in 1..Len(data) |-> Cell(i - 1)]])
         ELSE results
    ELSE results

\* the body of the inner loop of find_signal_in_data
find_signal_visit(results, signal_name, vehicle_id, channel_group, df) ==
    IF HasKey(df, signal_name)
    THEN LET data == dropna(Get(df, signal_name)) IN
         IF Len(data) > 0
         THEN Put(results, vehicle_id,
                  [data |-> data,
                   channel_group |-> channel_group,
                   timestamps |-> IF HasKey(df, s_timestamps)
                                  THEN Get(df, s_timestamps)
                                  ELSE [i \in 1..Len(data) |-> Cell(i - 1)]])
         ELSE results
    ELSE results

RECURSIVE find_signal_channels(_, _, _, _, _)
find_signal_channels(results, signal_name, vehicle_id, channels, j) ==
    IF j > Len(channels)
    THEN results
    ELSE find_signal_channels(
             find_signal_visit(results, signal_name, vehicle_id,
                               channels[j][1], channels[j][2]),
             signal_name, vehicle_id, channels, j + 1)

RECURSIVE find_signal_vehicles(_, _, _, _)
find_signal_vehicles(results, signal_name, store, i) ==
    IF i > Len(store)
    THEN results
    ELSE find_signal_vehicles(
             find_signal_channels(results, signal_name, store[i][1],
                                  store[i][2], 1),
             signal_name, store, i + 1)

find_signal_in_data(store, signal_name) ==
    find_signal_vehicles(<<>>, signal_name, store, 1)

(***************************************************************************)
(* Histogram renderer                                                      *)
(***************************************************************************)
s_batt == <<"b","a","t","t">>
s_voltage == <<"v","o","l","t","a","g","e">>
s_pressure == <<"p","r","e","s","s","u","r","e">>
s_prail == <<"p","r","a","i","l">>
s_speed == <<"s","p","e","e","d">>
s_neng == <<"n","e","n","g">>
s_V == <<"V">>
s_MPa == <<"M","P","a">>
s_rpm == <<"r","p","m">>
s_underscore == "_"
s_No_data_found == <<"N","o"," ","d","a","t","a"," ","f","o","u","n","d"," ","f","o","r"," ","s","i","g","n","a","l",":"," ">>
s_Analysis_failed == <<"A","n","a","l","y","s","i","s"," ","f","a","i","l","e","d",":"," ">>
s_list_index_out_of_range == <<"l","i","s","t"," ","i","n","d","e","x"," ","o","u","t"," ","o","f"," ","r","a","n","g","e">>
s_Generated == <<"G","e","n","e","r","a","t","e","d"," ">>
s_analysis_for == <<" ","a","n","a","l","y","s","i","s"," ","f","o","r"," ">>
s_using_real_vehicle_data == <<" ","u","s","i","n","g"," ","r","e","a","l"," ","v","e","h","i","c","l","e"," ","d","a","t","a">>
s_Distribution == <<" ","D","i","s","t","r","i","b","u","t","i","o","n">>
s_data_source == <<"R","e","a","l"," ","C","S","V"," ","f","i","l","e","s"," ","f","r","o","m"," ","M","D","F"," ","e","x","t","r","a","c","t","i","o","n">>
Bins == 30

get_signal_unit(signal_name) ==
    LET signal_lower == Lower(signal_name) IN
    IF Contains(s_batt, signal_lower) \/ Contains(s_voltage, signal_lower)
    THEN s_V
    ELSE IF Contains(s_pressure, signal_lower)
              \/ Contains(s_prail, signal_lower)
         THEN s_MPa
         ELSE IF Contains(s_speed, signal_lower)
                   \/ Contains(s_neng, signal_lower)
              THEN s_rpm
              ELSE <<>>

\* f"Vehicle{vehicle_id.split('_')[0].replace('Vehicle', '').zfill(2)}"
vehicle_label(vehicle_id) ==
    LET vehicle_num == Replace(SplitChar(vehicle_id, s_underscore)[1],
                               s_Vehicle, <<>>)
    IN s_Vehicle \o ZFill(vehicle_num, 2)

RECURSIVE Sum(_)
Sum(xs) == IF xs = <<>> THEN 0 ELSE Head(xs) + Sum(Tail(xs))

SeqMin(xs) == CHOOSE x \in {xs[i] : i \in 1..Len(xs)} :
                 \A i \in 1..Len(xs) : x <= xs[i]
SeqMax(xs) == CHOOSE x \in {xs[i] : i \in 1..Len(xs)} :
                 \A i \in 1..Len(xs) : x >= xs[i]

\* the statistics of one series.  Floats are kept exact: mean is the
\* fraction sum/n, std is given by its square, the sample variance
\* (n*sum(x^2) - sum(x)^2) / (n*(n-1)), and is NaN for a single value.
series_statistics(data) ==
    LET n == Len(data)
        sx == Sum(data)
        sxx == Sum([i \in 1..n |-> data[i] * data[i]])
    IN [mean |-> <<sx, n>>,
        std |-> IF n > 1 THEN <<"sqrt", n * sxx - sx * sx, n * (n - 1)>>
                ELSE NaN,
        min |-> SeqMin(data),
        max |-> SeqMax(data),
        count |-> n]

\* the loop over signal_data.items(): <<all_data, labels, statistics>>
RECURSIVE histogram_loop(_, _, _, _, _)
histogram_loop(signal_data, i, all_data, labels, statistics) ==
    IF i > Len(signal_data)
    THEN <<all_data, labels, statistics>>
    ELSE LET data == signal_data[i][2].data
             label == vehicle_label(signal_data[i][1])
         IN histogram_loop(signal_data, i + 1,
                           Append(all_data, data),
                           Append(labels, label),
                           Put(statistics, label, series_statistics(data)))

\* the rendered figure, given by what it is drawn from; plot_base64 is the
\* encoding of this picture
render(signal_name, all_data, labels) ==
    [series |-> all_data,
     labels |-> labels,
     bins |-> Bins,
     xlabel |-> signal_name \o <<" ", "[">> \o get_signal_unit(signal_name)
                  \o <<"]">>,
     title |-> signal_name \o s_Distribution]

\* create_iav_style_histogram without the check for an empty result
create_iav_style_histogram_no_raise(store, signal_name) ==
    LET signal_data == find_signal_in_data(store, signal_name)
        r == histogram_loop(signal_data, 1, <<>>, <<>>, <<>>)
    IN [raised |-> FALSE,
        signal_data |-> signal_data,
        plot_base64 |-> render(signal_name, r[1], r[2]),
        statistics |-> r[3]]

\* create_iav_style_histogram: the ValueError raised or the pair returned,
\* together with the value of its local signal_data
create_iav_style_histogram(store, signal_name) ==
    LET signal_data == find_signal_in_data(store, signal_name) IN
    IF signal_data = <<>>
    THEN [raised |-> TRUE,
          signal_data |-> signal_data,
          message |-> s_No_data_found \o signal_name]
    ELSE LET r == histogram_loop(signal_data, 1, <<>>, <<>>, <<>>)
         IN [raised |-> FALSE,
             signal_data |-> signal_data,
             plot_base64 |-> render(signal_name, r[1], r[2]),
             statistics |-> r[3]]

(***************************************************************************)
(* Request handlers                                                        *)
(***************************************************************************)
\* the outcome of analyze_data: the response returned or the HTTPException
\* raised, with the argument the resolver was called with, the handler's
\* local signal_name and the local signal_data of create_iav_style_histogram.
\* What the framework does with the returned object is not part of it.
analyze_data(store, request) ==
    LET sigs == extract_signals_from_description(
                    request.analysis_description,
                    request.signal_descriptions)
        base == [endpoint |-> "analyze",
                 request |-> request,
                 resolver_arg |-> request.signal_descriptions]
    IN IF sigs = IndexError
       THEN base @@ [status |-> 500,
                     detail |-> s_Analysis_failed
                                   \o s_list_index_out_of_range]
       ELSE LET signal_name == sigs[1]
                kind == identify_analysis_type(request.analysis_description)
                hist == create_iav_style_histogram(store, signal_name)
                locals == base @@ [signal_name |-> signal_name,
                                   signal_data |-> hist.signal_data]
            IN IF hist.raised
               THEN locals @@ [status |-> 500,
                               detail |-> s_Analysis_failed \o hist.message]
               ELSE locals @@
                    [status |-> 200,
                     analysis_type |-> kind,
                     description |-> s_Generated \o kind \o s_analysis_for
                                       \o signal_name
                                       \o s_using_real_vehicle_data,
                     plot_base64 |-> hist.plot_base64,
                     statistics |-> hist.statistics,
                     vehicle_data |->
                        [vehicles_analyzed |-> Keys(store),
                         signal_analyzed |-> signal_name,
                         data_source |-> s_data_source]]

root(store) ==
    [endpoint |-> "root", status |-> 200, loaded_vehicles |-> Keys(store)]

\* the printable ASCII characters in code point order (the backquote, which
\* no name of the model uses, is left out)
AsciiOrder == <<" ","!","\"","#","$","%","&","'","(",")","*","+",",","-",".","/","0","1","2","3","4","5","6","7","8","9",":",";","<","=",">","?","@","A","B","C","D","E","F","G","H","I","J","K","L","M","N","O","P","Q","R","S","T","U","V","W","X","Y","Z","[","\\","]","^","_","a","b","c","d","e","f","g","h","i","j","k","l","m","n","o","p","q","r","s","t","u","v","w","x","y","z","{","|","}","~">>
Ord(c) == CHOOSE i \in 1..Len(AsciiOrder) : AsciiOrder[i] = c

\* a < b for Python strings
RECURSIVE StrLess(_, _)
StrLess(a, b) ==
    IF b = <<>> THEN FALSE
    ELSE IF a = <<>> THEN TRUE
    ELSE IF Head(a) # Head(b) THEN Ord(Head(a)) < Ord(Head(b))
    ELSE StrLess(Tail(a), Tail(b))

\* sorted(S) for a finite set of strings
RECURSIVE Sorted(_)
Sorted(S) ==
    IF S = {} THEN <<>>
    ELSE LET m == CHOOSE x \in S : \A y \in S \ {x} : StrLess(x, y)
         IN <<m>> \o Sorted(S \ {m})

get_available_signals(store) ==
    LET all_signals ==
            UNION { UNION { KeySet(store[i][2][j][2]) :
                              j \in 1..Len(store[i][2]) } :
                    i \in 1..Len(store) }
        signal_columns ==
            {col \in all_signals :
                col # s_timestamps /\ ~StartsWith(col, s_Unnamed)}
    IN [endpoint |-> "available_signals",
        status |-> 200,
        available_signals |-> Sorted(signal_columns),
        vehicles_loaded |-> Keys(store),
        total_signals |-> Cardinality(signal_columns)]

(***************************************************************************)
(* The service: start-up followed by requests                              *)
(***************************************************************************)
FileNames ==
    { <<"V","e","h","i","c","l","e","1","_","a",".","G","0",".","c","s","v">>,
      <<"V","e","h","i","c","l","e","1","_","a",".","G","1",".","c","s","v">>,
      <<"V","e","h","i","c","l","e","0","1","_","b",".","G","0",".","c","s","v">>,
      <<"V","e","h","i","c","l","e","1","_","a",".","G","0",".","x",".","c","s","v">>,
      <<"n","o","t","e","s",".","c","s","v">> }

\* what pd.read_csv makes of a file: an error, a column of one value, a
\* column with a missing cell, or a frame with an index column, timestamps,
\* a second signal and an Eng_uBatt column that has no value at all
Contents ==
    { ParseError,
      DataFrame(<< <<s_Eng_uBatt, <<Cell(1)>> >> >>),
      DataFrame(<< <<s_Eng_uBatt, <<NaN, Cell(2)>> >> >>),
      DataFrame(<< <<s_Unnamed_0, <<Cell(0)>> >>,
                   <<s_timestamps, <<Cell(5)>> >>,
                   <<s_Eng_nEng10ms, <<Cell(3)>> >>,
                   <<s_Eng_uBatt, <<NaN>> >> >>) }

\* the listings glob can return: distinct names, any order
Directories ==
    {d \in UNION {[1..k -> FileNames \X Contents] : k \in 0..MaxFiles} :
        \A i, j \in 1..Len(d) : i # j => d[i][1] # d[j][1]}

s_speed_over_time == <<"s","p","e","e","d"," ","o","v","e","r"," ","t","i","m","e">>

Request(sd, d) == [signal_descriptions |-> sd, analysis_description |-> d]
TwoSignals == << <<s_Eng_nEng10ms, s_Engine_speed>>,
                 <<s_Eng_uBatt, s_Battery_voltage_in_mV>> >>

\* request bodies that pass validation (a dict of strings and a string)
Requests ==
    { Request(<<>>, s_voltage),
      Request(ExampleBatt, s_voltage),
      Request(TwoSignals, <<>>),
      Request(TwoSignals, s_speed_over_time),
      Request(TwoSignals, s_voltage),
      Request(<< <<s_FuSHp_pRailBnk1, s_Fuel_Pressure>> >>, <<>>) }

PureIdle ==
    /\ description = <<>>
    /\ signal_descriptions = <<>>
    /\ signals = NotCalled
    /\ analysis_type = NotCalled
    /\ pc = "idle"

\* DataAnalyzer.__init__ up to the call of load_real_csv_data
Init ==
    /\ dir_exists \in BOOLEAN
    /\ csv_files \in Directories
    /\ dir_exists = FALSE => csv_files = <<>>
    /\ idx = 0
    /\ phase = "loading"
    /\ vehicle_data = <<>>
    /\ last = [endpoint |-> "none"]
    /\ PureIdle

\* load_real_csv_data: data/csv does not exist
LoadNoDirectory ==
    /\ phase = "loading"
    /\ ~dir_exists
    /\ phase' = "serving"
    /\ UNCHANGED <<dir_exists, csv_files, idx, vehicle_data, last>>
    /\ UNCHANGED pureVars

\* load_real_csv_data: one iteration of the loop over csv_files
LoadFile ==
    /\ phase = "loading"
    /\ dir_exists
    /\ idx < Len(csv_files)
    /\ vehicle_data' = load_file(vehicle_data, csv_files[idx + 1][1],
                                 csv_files[idx + 1][2])
    /\ idx' = idx + 1
    /\ UNCHANGED <<dir_exists, csv_files, phase, last>>
    /\ UNCHANGED pureVars

\* load_real_csv_data returns; the application starts serving
LoadDone ==
    /\ phase = "loading"
    /\ dir_exists
    /\ idx = Len(csv_files)
    /\ phase' = "serving"
    /\ UNCHANGED <<dir_exists, csv_files, idx, vehicle_data, last>>
    /\ UNCHANGED pureVars

Root ==
    /\ phase = "serving"
    /\ last' = root(vehicle_data)
    /\ UNCHANGED <<dir_exists, csv_files, idx, phase, vehicle_data>>
    /\ UNCHANGED pureVars

\* an analyze handler that reloads the store on a failed request
Analyze_reset_on_failure ==
    /\ phase = "serving"
    /\ \E request \in Requests :
          /\ last' = analyze_data(vehicle_data, request)
          /\ vehicle_data' = IF last'.status = 500 THEN <<>>
                             ELSE vehicle_data
    /\ UNCHANGED <<dir_exists, csv_files, idx, phase>>
    /\ UNCHANGED pureVars

Analyze ==
    /\ phase = "serving"
    /\ \E request \in Requests :
          last' = analyze_data(vehicle_data, request)
    /\ UNCHANGED <<dir_exists, csv_files, idx, phase, vehicle_data>>
    /\ UNCHANGED pureVars

AvailableSignals ==
    /\ phase = "serving"
    /\ last' = get_available_signals(vehicle_data)
    /\ UNCHANGED <<dir_exists, csv_files, idx, phase, vehicle_data>>
    /\ UNCHANGED pureVars

Next ==
    \/ LoadNoDirectory
    \/ LoadFile
    \/ LoadDone
    \/ Root
    \/ Analyze
    \/ AvailableSignals

Spec == Init /\ [][Next]_vars

(***************************************************************************)
(* Properties of the service                                               *)
(***************************************************************************)
\* an analyze request was handled and the resolver returned a name
AnalyzeResolved == last.endpoint = "analyze" /\ "signal_name" \in DOMAIN last

\* the data frames of the store, as <<vehicle_id, channel_group, df>>
Datasets(store) ==
    UNION { { <<store[i][1], store[i][2][j][1], store[i][2][j][2]>> :
                j \in 1..Len(store[i][2]) } : i \in 1..Len(store) }

\* the numbers of a column, in order, without the missing cells
NonMissing(col) ==
    LET P == {k \in 1..Len(col) : col[k] # NaN}
        nth(k) == CHOOSE p \in P : Cardinality({q \in P : q < p}) = k - 1
    IN [k \in 1..Cardinality(P) |-> col[nth(k)][1]]

\* C4: an analyze request whose resolved signal is a column of no loaded
\* dataset ends in a 500 failure whose message contains the signal name,
\* never in a success; every successful analyze response carries a
\* non-empty statistics mapping.
C4_NoDataIsFailure ==
    last.endpoint = "analyze" =>
        /\ (/\ AnalyzeResolved
            /\ \A ds \in Datasets(vehicle_data) :
                  ~HasKey(ds[3], last.signal_name))
              => /\ last.status = 500
                 /\ Contains(last.signal_name, last.detail)
        /\ last.status = 200 => last.statistics # <<>>

\* a store with datasets, none of which has the requested column
C4_Witness ==
    /\ AnalyzeResolved
    /\ Datasets(vehicle_data) # {}
    /\ \A ds \in Datasets(vehicle_data) : ~HasKey(ds[3], last.signal_name)
    /\ last.status = 500

\* the files loaded so far that were read successfully, by position
ReadFiles ==
    {i \in 1..idx : /\ Len(filename_parts(csv_files[i][1])) >= 2
                    /\ csv_files[i][2] # ParseError}
FileVehicle(i) == filename_parts(csv_files[i][1])[1]
FileGroup(i) == filename_parts(csv_files[i][1])[2]

\* C5 (as claimed): find_signal has an entry for a vehicle exactly when one
\* of the vehicle's datasets has the column; the entry holds the non-missing
\* values and the channel group of the last-loaded dataset with the column.
C5_EntryIffColumn ==
    AnalyzeResolved =>
        LET n == last.signal_name
            r == last.signal_data
        IN /\ KeySet(r) \subseteq KeySet(vehicle_data)
           /\ \A v \in KeySet(vehicle_data) :
                LET F == {i \in ReadFiles :
                             /\ FileVehicle(i) = v
                             /\ HasKey(csv_files[i][2][2], n)}
                IN /\ HasKey(r, v) <=> F # {}
                   /\ F # {} =>
                        LET i == CHOOSE i \in F : \A k \in F : k <= i
                        IN /\ Get(r, v).channel_group = FileGroup(i)
                           /\ Get(r, v).data
                                = NonMissing(Get(csv_files[i][2][2], n))

\* C5 (amended): find_signal has an entry for a vehicle exactly when one of
\* the vehicle's datasets has the column with at least one non-missing
\* value; the entry holds the non-missing values and the channel group of
\* the last such dataset in the store's channel-group order (the order in
\* which the vehicle's channel groups were first loaded).
C5_EntryIffNonMissingColumn ==
    AnalyzeResolved =>
        LET n == last.signal_name
            r == last.signal_data
        IN /\ KeySet(r) \subseteq KeySet(vehicle_data)
           /\ \A v \in KeySet(vehicle_data) :
                LET ch == Get(vehicle_data, v)
                    G == {j \in 1..Len(ch) :
                             /\ HasKey(ch[j][2], n)
                             /\ \E k \in 1..Len(Get(ch[j][2], n)) :
                                   Get(ch[j][2], n)[k] # NaN}
                IN /\ HasKey(r, v) <=> G # {}
                   /\ G # {} =>
                        LET j == CHOOSE j \in G : \A k \in G : k <= j
                        IN /\ Get(r, v).channel_group = ch[j][1]
                           /\ Get(r, v).data = NonMissing(Get(ch[j][2], n))

\* a vehicle with the column in two channel groups, and one whose only
\* column of that name has no value
C5_Witness ==
    /\ AnalyzeResolved
    /\ \E v \in KeySet(vehicle_data) :
          LET ch == Get(vehicle_data, v) IN
          /\ Len(ch) = 2
          /\ \A j \in 1..2 : /\ HasKey(ch[j][2], last.signal_name)
                             /\ dropna(Get(ch[j][2], last.signal_name)) # <<>>
          /\ HasKey(last.signal_data, v)
          /\ Get(last.signal_data, v).channel_group = ch[2][1]

C5_WitnessAllMissing ==
    /\ AnalyzeResolved
    /\ \E v \in KeySet(vehicle_data) :
          /\ \E j \in 1..Len(Get(vehicle_data, v)) :
                HasKey(Get(vehicle_data, v)[j][2], last.signal_name)
          /\ ~HasKey(last.signal_data, v)

\* C6: after any sequence of files the store holds exactly the files that
\* were read: a vehicle entry exists only for a vehicle with a read file, a
\* dataset only under the pair of a read file, each dataset is the content
\* of one file (the last read under its pair), and a file that fails to
\* parse adds nothing.
C6_StoreIsReadFilesOnly ==
    /\ \A v \in KeySet(vehicle_data) : \E i \in ReadFiles : FileVehicle(i) = v
    /\ \A i \in ReadFiles : HasKey(vehicle_data, FileVehicle(i))
    /\ \A ds \in Datasets(vehicle_data) :
          \E i \in ReadFiles : /\ FileVehicle(i) = ds[1]
                               /\ FileGroup(i) = ds[2]
    /\ \A i \in ReadFiles :
          (\A k \in ReadFiles :
              (k > i => <<FileVehicle(k), FileGroup(k)>>
                           # <<FileVehicle(i), FileGroup(i)>>))
            => <<FileVehicle(i), FileGroup(i), csv_files[i][2][2]>>
                  \in Datasets(vehicle_data)

\* C7: once initialization has finished no request changes the store.
C7_StoreFrozenWhileServing ==
    [][phase = "serving" => vehicle_data' = vehicle_data]_vars

\* a failed and a successful analyze request over a non-empty store
C7_Witness ==
    /\ phase = "serving"
    /\ last.endpoint = "analyze"
    /\ last.status = 500
    /\ Datasets(vehicle_data) # {}

\* C9: an analyze request with an empty signal_descriptions mapping is
\* rejected before signal resolution runs: the resolver is never invoked
\* with an empty mapping.
C9_ResolverNeverGetsEmptyMapping ==
    (last.endpoint = "analyze" /\ "resolver_arg" \in DOMAIN last)
        => last.resolver_arg # <<>>

\* C10: the statistics mapping has one entry per vehicle identifier that
\* find_signal returned a series for, as many entries as histogram series,
\* each with the count of that vehicle's non-missing values; no two vehicle
\* identifiers share an entry.
C10_OneStatisticsEntryPerVehicle ==
    (AnalyzeResolved /\ last.status = 200) =>
        LET r == last.signal_data
            st == last.statistics
        IN /\ Len(st) = Len(r)
           /\ Len(st) = Len(last.plot_base64.series)
           /\ \A i \in 1..Len(r) :
                /\ HasKey(st, vehicle_label(r[i][1]))
                /\ Get(st, vehicle_label(r[i][1])).count = Len(r[i][2].data)
           /\ \A i, j \in 1..Len(r) :
                i # j => vehicle_label(r[i][1]) # vehicle_label(r[j][1])

====
